---- MODULE Spec2Model ----
(***************************************************************************)
(* A model of the fit/transform feature transformers of                    *)
(* src/transform/__init__.py.                                              *)
(*                                                                         *)
(* One driver holds one transformer instance at a time.  The state is the  *)
(* instance (`self`), the caller's array as it is after the last call      *)
(* (`X`), the same array as it was when that call was issued (`Xpre`), the  *)
(* outcome of the last call (`ret`) and a little history (`hist`).          *)
(*                                                                         *)
(* Arrays carry what the code's control flow and indexing depend on:       *)
(* shapes, and cells that name where a value comes from.  Sample values    *)
(* are integers only where the code does arithmetic on them                *)
(* (FilterTransformer, FlattenTransformer, DiffTransformer).               *)
(***************************************************************************)
EXTENDS Integers, Sequences, FiniteSets, TLC

VARIABLES self, X, Xpre, ret, hist

vars == <<self, X, Xpre, ret, hist>>

(* ------------------------------ bounds --------------------------------- *)

\* Largest batch size N explored.
MaxN == 2
\* Largest signal length T explored.
MaxT == 3
\* Largest NFFT explored.
MaxNFFT == 2

(* --------------------------- program constants -------------------------- *)

\* Fs=2000 in the call of mlab.specgram.
Fs == 2000
\* `if self.clip < 1000.0`, in Hz.
ClipOff == 1000

(* ------------------------------ helpers --------------------------------- *)

Max(a, b) == IF a >= b THEN a ELSE b

\* Python's int() of the rational a/b (b > 0): truncation toward zero.
IntTrunc(a, b) == IF a >= 0 THEN a \div b ELSE -((-a) \div b)

NoInstance == [cls |-> "none"]
NoArray == [kind |-> "none"]
NoCall == [kind |-> "nocall"]
NoHist == [calls |-> 0]

Raise(e) == [kind |-> "error", err |-> e]

(* ======================= SpectrogramTransformer ======================== *)

\* The constructor's noverlap argument is a rational num/den; integers have
\* den = 1.  Values below 1 are the ones the constructor treats as fractions.
NoverlapArgs ==
    {[num |-> n, den |-> 1] : n \in -1..(MaxNFFT + 1)}
        \cup {[num |-> q, den |-> 2] : q \in {-1, 1}}

PadToChoices == {0} \cup (1..4)

ClipChoices == {-1, 0, 500, 999, 1000}

\* if noverlap < 1: noverlap = int(NFFT * noverlap)
EffectiveNoverlap(NFFT, arg) ==
    IF arg.num < arg.den
    THEN IntTrunc(NFFT * arg.num, arg.den)
    ELSE arg.num \div arg.den

\* SpectrogramTransformer.__init__ ; pad_to = 0 stands for None.
SpectrogramNew(pad_to, NFFT, arg, clip, log, flatten, transpose) ==
    [cls |-> "Spectrogram", pad_to |-> pad_to, NFFT |-> NFFT,
     noverlap |-> EffectiveNoverlap(NFFT, arg), clip |-> clip, log |-> log,
     flatten |-> flatten, transpose |-> transpose]

\* pad_to as mlab uses it: None means NFFT.
PadTo(s) == IF s.pad_to = 0 THEN s.NFFT ELSE s.pad_to

\* numFreqs = pad_to//2 + 1 (real input, one-sided spectrum).
NumFreqs(s) == (PadTo(s) \div 2) + 1

\* len(np.arange(0, len(x) - NFFT + 1, step)) with step = NFFT - noverlap,
\* after mlab has zero padded a signal shorter than NFFT up to NFFT.
NumWindows(s, T) ==
    LET len == Max(T, s.NFFT)
        step == s.NFFT - s.noverlap
    IN ((len - s.NFFT) \div step) + 1

\* A variant of the search that misses the tie: side='left'.
SearchSortedLeft(s) ==
    Cardinality({k \in 0..((PadTo(s) \div 2)) : Fs * k < s.clip * PadTo(s)})

\* freqs.searchsorted(clip, side='right') on freqs[k] = Fs/pad_to * k:
\* the number of k with Fs*k/pad_to <= clip.
SearchSortedRight(s) ==
    Cardinality({k \in 0..(NumFreqs(s) - 1) : Fs * k <= s.clip * PadTo(s)})

\* mlab.specgram rejects noverlap >= NFFT (assert NFFT > noverlap).
SpecgramRejects(s) == s.NFFT <= s.noverlap

\* Pxx of signal i, as a matrix (sequence of rows) of cells naming the
\* frequency bin f and the window w (0-based), with db set by the log step.
Specgram(s, i, T) ==
    [f \in 1..NumFreqs(s) |->
        [w \in 1..NumWindows(s, T) |->
            [sig |-> i, f |-> f - 1, w |-> w - 1, db |-> FALSE]]]

\* Pxx = 10. * np.log10(Pxx)
Log10(P) ==
    [f \in 1..Len(P) |-> [w \in 1..Len(P[f]) |-> [P[f][w] EXCEPT !.db = TRUE]]]

\* Pxx = Pxx[:n_fx]
ClipRows(P, n) == SubSeq(P, 1, IF n <= Len(P) THEN n ELSE Len(P))

\* A matrix is kept with its shape, so that a matrix with no rows (or no
\* columns) still has one: [r, c, m].
Mat(r, c, m) == [r |-> r, c |-> c, m |-> m]

\* A variant of the transpose step that leaves Pxx as it is.
TransposeSkipped(M) == M

\* Pxx.T
TransposeMat(M) ==
    Mat(M.c, M.r, [a \in 1..M.c |-> [b \in 1..M.r |-> M.m[b][a]]])

\* Pxx.flatten(), row-major
FlattenMat(M) ==
    [k \in 1..(M.r * M.c) |-> M.m[((k - 1) \div M.c) + 1][((k - 1) % M.c) + 1]]

\* Lines 64-77: the per-signal pipeline up to the transpose.
SignalPxx(s, i, T) ==
    LET P0 == Specgram(s, i, T)
        P1 == IF s.log THEN Log10(P0) ELSE P0
        P2 == IF s.clip < ClipOff THEN ClipRows(P1, SearchSortedRight(s)) ELSE P1
        M == Mat(Len(P2), NumWindows(s, T), P2)
    IN IF s.transpose THEN TransposeMat(M) ELSE M

\* numpy's rule for `target[...] = src` along one axis.
DimFits(src, dst) == src = dst \/ src = 1

\* X_prime[i, :] = Pxx (flattened): the value written, after broadcasting.
BroadcastFlat(v, L) == [k \in 1..L |-> IF Len(v) = 1 THEN v[1] ELSE v[k]]

\* X_prime[i, :, :] = Pxx : the value written, after broadcasting.
BroadcastMat(M, R, C) ==
    [a \in 1..R |-> [b \in 1..C |->
        M.m[IF M.r = 1 THEN 1 ELSE a][IF M.c = 1 THEN 1 ELSE b]]]

\* np.empty(...): rows not written yet hold no defined value.
EmptyRows(N) == [i \in 1..N |-> [n |-> 0, v |-> <<>>]]

\* Lines 63-90: the loop body for signals i..N; Xp is X_prime so far.
RECURSIVE SpectrogramLoop(_, _, _, _)
SpectrogramLoop(s, lens, i, Xp) ==
    IF i > Len(lens) THEN Xp
    ELSE IF SpecgramRejects(s) THEN Raise("AssertionError")
    ELSE
        LET M == SignalPxx(s, i, lens[i])
            A == IF Xp.kind # "None" THEN Xp
                 ELSE IF s.flatten
                      THEN [kind |-> "array", shape |-> <<Len(lens), M.r * M.c>>,
                            rows |-> EmptyRows(Len(lens))]
                      ELSE [kind |-> "array", shape |-> <<Len(lens), M.r, M.c>>,
                            rows |-> EmptyRows(Len(lens))]
        IN IF s.flatten
           THEN IF DimFits(M.r * M.c, A.shape[2])
                THEN SpectrogramLoop(s, lens, i + 1,
                        [A EXCEPT !.rows[i] =
                            [n |-> @.n + 1,
                             v |-> BroadcastFlat(FlattenMat(M), A.shape[2])]])
                ELSE Raise("ValueError")
           ELSE IF DimFits(M.r, A.shape[2]) /\ DimFits(M.c, A.shape[3])
                THEN SpectrogramLoop(s, lens, i + 1,
                        [A EXCEPT !.rows[i] =
                            [n |-> @.n + 1,
                             v |-> BroadcastMat(M, A.shape[2], A.shape[3])]])
                ELSE Raise("ValueError")

\* SpectrogramTransformer.transform(X): X_prime = None, the loop, return.
SpectrogramTransformResult(s, lens) ==
    SpectrogramLoop(s, lens, 1, [kind |-> "None"])

\* A batch of signals is the sequence of their lengths.
RECURSIVE SeqsUpTo(_, _)
SeqsUpTo(S, n) ==
    IF n = 0 THEN {<<>>}
    ELSE LET R == SeqsUpTo(S, n - 1)
         IN R \cup {Append(q, e) : q \in {r \in R : Len(r) = n - 1}, e \in S}

SignalBatches == {[kind |-> "signals", lens |-> l] : l \in SeqsUpTo(1..MaxT, MaxN)}

SpectrogramInit ==
    /\ self = NoInstance
    /\ \E pad_to \in PadToChoices, NFFT \in 1..MaxNFFT, arg \in NoverlapArgs,
          clip \in ClipChoices, log \in BOOLEAN, flatten \in BOOLEAN,
          transpose \in BOOLEAN :
          self' = SpectrogramNew(pad_to, NFFT, arg, clip, log, flatten, transpose)
    /\ UNCHANGED <<X, Xpre, ret, hist>>

\* The first transform call of an instance, on a batch of the caller's.
SpectrogramTransform ==
    /\ self.cls = "Spectrogram"
    /\ ret = NoCall
    /\ \E B \in SignalBatches :
          /\ Xpre' = B
          /\ X' = B
          /\ ret' = SpectrogramTransformResult(self, B.lens)
    /\ UNCHANGED <<self, hist>>

\* A later transform call, on the same batch.
SpectrogramTransformAgain ==
    /\ self.cls = "Spectrogram"
    /\ ret # NoCall
    /\ Xpre' = X
    /\ X' = X
    /\ ret' = SpectrogramTransformResult(self, X.lens)
    /\ UNCHANGED <<self, hist>>

(* ========================== StatsTransformer =========================== *)

\* self.stats = [np.min, np.max, np.mean, np.var, np.median, np.ptp]
Stats == <<"min", "max", "mean", "var", "median", "ptp">>

AxisChoices == {-1, 0, 1, 2}

\* StatsTransformer.__init__
StatsNew(axis) == [cls |-> "Stats", axis |-> axis]

\* A 3-D batch is its shape <<N, A, B>>; its values stay symbolic.
Batches3 ==
    {[kind |-> "array3", shape |-> <<n, a, b>>] :
        n \in 0..MaxN, a \in 1..3, b \in 1..3}

\* n_bins as lines 110-113 set it: with any other axis the local stays
\* unbound.
NBins(axis, shape) ==
    IF axis = 0 THEN [bound |-> TRUE, v |-> shape[3]]
    ELSE IF axis = 1 THEN [bound |-> TRUE, v |-> shape[2]]
    ELSE [bound |-> FALSE]

\* stat(X_i, axis=axis) on the (A, B) matrix X_i: one value per bin of the
\* axis that is not reduced.
StatVals(i, stat, axis, shape) ==
    [k \in 1..(IF axis = 0 THEN shape[3] ELSE shape[2]) |->
        [sig |-> i, stat |-> stat, bin |-> k - 1]]

\* out[i, lo:hi] = vals : the columns of the slice (clamped to the row, as
\* Python slices are) take the broadcast of vals; others are left alone.
AssignSlice(row, lo, hi, vals) ==
    LET width == Len(row)
        h == IF hi > width THEN width ELSE hi
        l == IF lo > h THEN h ELSE lo
    IN [c \in 1..width |->
           IF c > l /\ c <= h
           THEN [n |-> row[c].n + 1,
                 v |-> IF Len(vals) = 1 THEN vals[1] ELSE vals[c - l]]
           ELSE row[c]]

SliceFits(width, lo, hi, vals) ==
    LET h == IF hi > width THEN width ELSE hi
        l == IF lo > h THEN h ELSE lo
    IN DimFits(Len(vals), h - l)

\* Lines 117-119 for statistics j..6 of signal i; row is out[i].
RECURSIVE StatsRow(_, _, _, _, _)
StatsRow(axis, shape, i, j, row) ==
    IF j > Len(Stats) THEN [kind |-> "row", row |-> row]
    ELSE
        LET n_bins == NBins(axis, shape).v
            vals == StatVals(i, Stats[j], axis, shape)
            lo == n_bins * (j - 1)
            hi == n_bins * j
        IN IF SliceFits(Len(row), lo, hi, vals)
           THEN StatsRow(axis, shape, i, j + 1, AssignSlice(row, lo, hi, vals))
           ELSE Raise("ValueError")

\* Lines 115-119 for signals i..N.
RECURSIVE StatsLoop(_, _, _, _)
StatsLoop(axis, shape, i, out) ==
    IF i > shape[1] THEN out
    ELSE LET r == StatsRow(axis, shape, i, 1, out.rows[i])
         IN IF r.kind = "error" THEN r
            ELSE StatsLoop(axis, shape, i + 1, [out EXCEPT !.rows[i] = r.row])

\* StatsTransformer.transform
StatsTransformResult(s, shape) ==
    IF ~NBins(s.axis, shape).bound THEN Raise("UnboundLocalError")
    ELSE
        LET n_bins == NBins(s.axis, shape).v
            width == Len(Stats) * n_bins
        IN StatsLoop(s.axis, shape, 1,
              [kind |-> "array", shape |-> <<shape[1], width>>,
               rows |-> [i \in 1..shape[1] |->
                            [c \in 1..width |-> [n |-> 0, v |-> <<>>]]]])

StatsInit ==
    /\ self = NoInstance
    /\ \E axis \in AxisChoices : self' = StatsNew(axis)
    /\ UNCHANGED <<X, Xpre, ret, hist>>

StatsTransform ==
    /\ self.cls = "Stats"
    /\ \E B \in Batches3 :
          /\ Xpre' = B
          /\ X' = B
          /\ ret' = StatsTransformResult(self, B.shape)
    /\ UNCHANGED <<self, hist>>

(* ========================= WhitenerTransformer ========================= *)

\* n_components = 0 stands for None.
WhitenerNew(n_components) ==
    [cls |-> "Whitener", n_components |-> n_components,
     pca |-> [state |-> "unset"]]

\* Training and test data: a 3-D batch (N >= 1 rows of A channels) with an
\* identity, and whether PCA.fit accepts its flattened form (it raises, for
\* one, on data that is not finite).
WhitenerData ==
    {[kind |-> "data", id |-> d, shape |-> <<n, a, 2>>, ok |-> k] :
        d \in 1..2, n \in 1..MaxN, a \in 1..2, k \in BOOLEAN}

\* fit, line 128: `_X, _y = self._flatten(X, y)`.  _flatten returns the pair
\* only when y is given; with y=None it returns _X alone, and the unpacking
\* iterates over the rows of _X: it needs exactly two of them, and then _X
\* is the first row.
FlattenUnpack(D, hasY) ==
    IF hasY THEN [kind |-> "ok", rows |-> "all"]
    ELSE IF D.shape[1] * D.shape[2] = 2 THEN [kind |-> "ok", rows |-> "first"]
    ELSE Raise("ValueError")

\* WhitenerTransformer.fit: the new self.pca and the outcome.
WhitenerFitResult(s, D, hasY) ==
    LET u == FlattenUnpack(D, hasY)
    IN IF u.kind = "error" THEN [self |-> s, ret |-> u]
       ELSE IF ~D.ok
            THEN [self |-> [s EXCEPT !.pca = [state |-> "unfitted"]],
                  ret |-> Raise("ValueError")]
            ELSE [self |-> [s EXCEPT !.pca =
                               [state |-> "fitted", data |-> D.id,
                                rows |-> u.rows]],
                  ret |-> [kind |-> "self"]]

\* WhitenerTransformer.transform: self.pca is looked up first (a missing
\* attribute raises AttributeError), then PCA.transform runs, which fails
\* the same way on a PCA that was never fitted.  The result keeps X's
\* leading axes, X.shape[:-1], and records the model that produced it.
WhitenerTransformResult(s, D) ==
    IF s.pca.state = "unset" THEN Raise("AttributeError")
    ELSE IF s.pca.state = "unfitted" THEN Raise("AttributeError")
    ELSE [kind |-> "array", lead |-> <<D.shape[1], D.shape[2]>>,
          of |-> D.id, model |-> s.pca]

WhitenerInit ==
    /\ self = NoInstance
    /\ \E nc \in 0..2 : self' = WhitenerNew(nc)
    /\ hist' = [op |-> "new", fitted |-> FALSE, lastFit |-> 0,
                before |-> [state |-> "unset"]]
    /\ UNCHANGED <<X, Xpre, ret>>

WhitenerFit ==
    /\ self.cls = "Whitener"
    /\ \E noY \in BOOLEAN, D \in WhitenerData :
          LET r == WhitenerFitResult(self, D, ~noY)
          IN /\ self' = r.self
             /\ ret' = r.ret
             /\ Xpre' = D
             /\ X' = D
             /\ hist' = IF r.ret.kind = "self"
                        THEN [op |-> "fit", fitted |-> TRUE, lastFit |-> D.id,
                              before |-> self.pca]
                        ELSE [hist EXCEPT !.op = "fit", !.before = self.pca]

\* transform on data PCA accepts.
WhitenerTransform ==
    /\ self.cls = "Whitener"
    /\ \E D \in {d \in WhitenerData : d.ok} :
          /\ ret' = WhitenerTransformResult(self, D)
          /\ Xpre' = D
          /\ X' = D
    /\ hist' = [hist EXCEPT !.op = "transform", !.before = self.pca]
    /\ UNCHANGED self

(* ========================== FlattenTransformer ========================= *)

\* FlattenTransformer.__init__
FlattenNew(scale) == [cls |-> "Flatten", scale |-> scale]

\* A 3-D batch of numbers, shape <<N, A, B>>: every cell holds a value that
\* tells its position.
Cube(n, a, b) ==
    [kind |-> "cube", shape |-> <<n, a, b>>,
     v |-> [i \in 1..n |-> [j \in 1..a |-> [k \in 1..b |->
              (100 * i) + (10 * j * j) + (k * k * k)]]]]

Cubes == {Cube(n, a, b) : n \in 0..MaxN, a \in 1..2, b \in 1..2}

\* FlattenTransformer.transform: out[i, :] = X_i.flatten(); out *= scale
FlattenTransformResult(s, C) ==
    [kind |-> "array", shape |-> <<C.shape[1], C.shape[2] * C.shape[3]>>,
     v |-> [i \in 1..C.shape[1] |->
              [c \in 1..(C.shape[2] * C.shape[3]) |->
                 s.scale * C.v[i][((c - 1) \div C.shape[3]) + 1]
                                 [((c - 1) % C.shape[3]) + 1]]]]

FlattenInit ==
    /\ self = NoInstance
    /\ \E scale \in 1..2 : self' = FlattenNew(scale)
    /\ UNCHANGED <<X, Xpre, ret, hist>>

FlattenTransform ==
    /\ self.cls = "Flatten"
    /\ \E C \in Cubes :
          /\ Xpre' = C
          /\ X' = C
          /\ ret' = FlattenTransformResult(self, C)
    /\ UNCHANGED <<self, hist>>

(* ============================ FuncTransformer ========================== *)

\* The injected functions tried: the identity, one that returns the batch
\* flattened to one axis, one that drops the first row (X[1:]) and one that
\* returns the batch twice over (np.concatenate([X, X])).
FuncChoices == {"identity", "ravel", "droprow", "twice"}

\* FuncTransformer.__init__
FuncNew(func) == [cls |-> "Func", func |-> func]

RECURSIVE Product(_)
Product(shape) ==
    IF Len(shape) = 0 THEN 1 ELSE Head(shape) * Product(Tail(shape))

\* Batches of 2 or 3 axes, empty ones among them; values stay symbolic.
ShapedBatches ==
    {[kind |-> "shaped", shape |-> sh] :
        sh \in {<<n, a>> : n \in 0..MaxN, a \in 0..2}
               \cup {<<n, a, b>> : n \in 0..MaxN, a \in 0..2, b \in 1..2}}

\* The element count of func(X).
FuncOutSize(func, shape) ==
    IF func = "droprow"
    THEN (IF shape[1] = 0 THEN 0 ELSE shape[1] - 1) * Product(Tail(shape))
    ELSE IF func = "twice" THEN 2 * Product(shape)
    ELSE Product(shape)

\* a.reshape(shape) with one axis given as -1 (coded 0 - 1): numpy fills it
\* in as size / known, and refuses when the known axes multiply to 0 or do
\* not divide the size.
ReshapeInferOk(size, known) == known # 0 /\ size % known = 0

\* a.reshape(shape), all axes given: the sizes must agree.
ReshapeOk(size, shape) == size = Product(shape)

\* FuncTransformer.transform
FuncTransformResult(s, B) ==
    IF ~ReshapeInferOk(Product(B.shape), B.shape[1]) THEN Raise("ValueError")
    ELSE IF ~ReshapeOk(FuncOutSize(s.func, B.shape), B.shape)
         THEN Raise("ValueError")
         ELSE [kind |-> "array", shape |-> B.shape]

FuncInit ==
    /\ self = NoInstance
    /\ \E func \in FuncChoices : self' = FuncNew(func)
    /\ UNCHANGED <<X, Xpre, ret, hist>>

FuncTransform ==
    /\ self.cls = "Func"
    /\ \E B \in ShapedBatches :
          /\ Xpre' = B
          /\ X' = B
          /\ ret' = FuncTransformResult(self, B)
    /\ UNCHANGED <<self, hist>>

(* =========================== FilterTransformer ========================= *)

\* Sample values and noise are counted in units of 1e-6.
\* 1e-4, the factor of np.random.rand in line 211.
NoiseFactor == 100
\* 0.5, the term subtracted in line 211.
NoiseOffset == 500000

\* Largest number of transform calls on one FilterTransformer.
MaxCalls == 2

\* np.random.rand draws from [0, 1): the draws tried, in tenths.
RandChoices == {0, 9}

FilterChoices == {"identity", "negate"}

\* FilterTransformer.__init__
FilterNew(filter, noise) == [cls |-> "Filter", filter |-> filter, noise |-> noise]

\* A 2-D batch (N, T) of samples.
Matrices ==
    UNION {{[kind |-> "matrix", shape |-> <<n, t>>, v |-> m] :
               m \in [1..n -> [1..t -> {0, 1000000}]]} :
           n \in 0..MaxN, t \in 1..2}

\* noise = 1e-4 * np.random.rand(X.shape[1]) - 0.5, from the draws u.
NoiseVector(u) ==
    [k \in 1..Len(u) |-> ((NoiseFactor * u[k]) \div 10) - NoiseOffset]

ApplyFilter(filter, x) ==
    IF filter = "negate" THEN [k \in 1..Len(x) |-> 0 - x[k]] ELSE x

\* x += noise, in place: x is a view of row i of X.
AddInPlace(x, noise) == [k \in 1..Len(x) |-> x[k] + noise[k]]

\* FilterTransformer.transform: the caller's X after the call, and out.
\* noise is <<>> for None.
FilterTransformResult(s, M, noise) ==
    LET rows == [i \in 1..M.shape[1] |->
                    IF s.noise THEN AddInPlace(M.v[i], noise) ELSE M.v[i]]
    IN [X |-> [M EXCEPT !.v = rows],
        ret |-> [kind |-> "array", shape |-> M.shape,
                 v |-> [i \in 1..M.shape[1] |-> ApplyFilter(s.filter, rows[i])]]]

FilterInit ==
    /\ self = NoInstance
    /\ \E filter \in FilterChoices, noise \in BOOLEAN :
          self' = FilterNew(filter, noise)
    /\ hist' = [calls |-> 0, noise |-> <<>>]
    /\ UNCHANGED <<X, Xpre, ret>>

FilterCall(M) ==
    /\ hist.calls < MaxCalls
    /\ \E u \in [1..M.shape[2] -> RandChoices] :
          LET noise == IF self.noise THEN NoiseVector(u) ELSE <<>>
              r == FilterTransformResult(self, M, noise)
          IN /\ Xpre' = M
             /\ X' = r.X
             /\ ret' = r.ret
             /\ hist' = [calls |-> hist.calls + 1, noise |-> noise]
    /\ UNCHANGED self

\* transform on a batch of the caller's.
FilterTransform ==
    /\ self.cls = "Filter"
    /\ \E M \in Matrices : FilterCall(M)

\* transform once more on the same array.
FilterTransformAgain ==
    /\ self.cls = "Filter"
    /\ ret # NoCall
    /\ FilterCall(X)

(* ============================ DiffTransformer ========================== *)

\* DiffTransformer.__init__
DiffNew(n, flatten) == [cls |-> "Diff", n |-> n, flatten |-> flatten]

\* np.diff(m, n, axis=0) of one signal's (A, B) matrix m: n times
\* m[1:] - m[:-1]; n = 0 returns m.
RECURSIVE DiffRows(_, _)
DiffRows(m, n) ==
    IF n = 0 THEN m
    ELSE DiffRows([a \in 1..(IF Len(m) = 0 THEN 0 ELSE Len(m) - 1) |->
                      [b \in 1..Len(m[a]) |-> m[a + 1][b] - m[a][b]]], n - 1)

\* DiffTransformer.transform
DiffTransformResult(s, C) ==
    LET A1 == IF C.shape[2] >= s.n THEN C.shape[2] - s.n ELSE 0
        d == [i \in 1..C.shape[1] |-> DiffRows(C.v[i], s.n)]
    IN IF s.flatten
       THEN [kind |-> "array", shape |-> <<C.shape[1], A1 * C.shape[3]>>,
             v |-> [i \in 1..C.shape[1] |->
                      [c \in 1..(A1 * C.shape[3]) |->
                         d[i][((c - 1) \div C.shape[3]) + 1]
                             [((c - 1) % C.shape[3]) + 1]]]]
       ELSE [kind |-> "array", shape |-> <<C.shape[1], A1, C.shape[3]>>, v |-> d]

DiffInit ==
    /\ self = NoInstance
    /\ \E n \in 0..2, flatten \in BOOLEAN : self' = DiffNew(n, flatten)
    /\ UNCHANGED <<X, Xpre, ret, hist>>

DiffTransform ==
    /\ self.cls = "Diff"
    /\ \E C \in Cubes :
          /\ Xpre' = C
          /\ X' = C
          /\ ret' = DiffTransformResult(self, C)
    /\ UNCHANGED <<self, hist>>

(* ============================ specifications =========================== *)

\* Before any constructor has run.
Init ==
    /\ self = NoInstance
    /\ X = NoArray
    /\ Xpre = NoArray
    /\ ret = NoCall
    /\ hist = NoHist

NextSpectrogram ==
    \/ SpectrogramInit
    \/ SpectrogramTransform
    \/ SpectrogramTransformAgain

NextStats ==
    \/ StatsInit
    \/ StatsTransform

NextWhitener ==
    \/ WhitenerInit
    \/ WhitenerFit
    \/ WhitenerTransform

NextFunc ==
    \/ FuncInit
    \/ FuncTransform

NextFilter ==
    \/ FilterInit
    \/ FilterTransform
    \/ FilterTransformAgain

Next ==
    \/ SpectrogramInit
    \/ SpectrogramTransform
    \/ SpectrogramTransformAgain
    \/ StatsInit
    \/ StatsTransform
    \/ WhitenerInit
    \/ WhitenerFit
    \/ WhitenerTransform
    \/ FlattenInit
    \/ FlattenTransform
    \/ FuncInit
    \/ FuncTransform
    \/ FilterInit
    \/ FilterTransform
    \/ FilterTransformAgain
    \/ DiffInit
    \/ DiffTransform

SpecSpectrogram == Init /\ [][NextSpectrogram]_vars

SpecStats == Init /\ [][NextStats]_vars

SpecWhitener == Init /\ [][NextWhitener]_vars

SpecFunc == Init /\ [][NextFunc]_vars

SpecFilter == Init /\ [][NextFilter]_vars

Spec == Init /\ [][Next]_vars

(* ================================ claims =============================== *)

IsSpectrogramCall == self.cls = "Spectrogram" /\ ret # NoCall

\* The configuration the documentation asks for: 0 <= noverlap < NFFT.
ValidNoverlap(s) == 0 <= s.noverlap /\ s.noverlap < s.NFFT

EqualLengths(lens) == \A i, j \in 1..Len(lens) : lens[i] = lens[j]

\* Two signals of the batch yield spectrograms of different shapes.
MixedShapes(s, lens) ==
    \E i, j \in 1..Len(lens) : NumWindows(s, lens[i]) # NumWindows(s, lens[j])

\* The shape the specification gives a spectrogram batch, from the number
\* of windows W.
ExpectedShape(s, N, F, W) ==
    IF s.flatten THEN <<N, F * W>>
    ELSE IF s.transpose THEN <<N, W, F>>
    ELSE <<N, F, W>>

AllRowsWrittenOnce(r) == \A i \in 1..Len(r.rows) : r.rows[i].n = 1

\* C1 (as claimed): WhitenerTransformer lifecycle.  A transform call issued
\* before the first fit has completed fails with a not-fitted error; every
\* transform call issued after a fit has completed succeeds, using the model
\* stored by the most recent fit; and transform never changes the stored
\* model.
C1_TransformFollowsLastFit ==
    (self.cls = "Whitener" /\ hist.op = "transform") =>
        /\ self.pca = hist.before
        /\ IF hist.fitted
           THEN /\ ret.kind = "array"
                /\ ret.model.state = "fitted"
                /\ ret.model.data = hist.lastFit
           ELSE /\ ret.kind = "error"
                /\ ret.err = "AttributeError"

\* C2 (as claimed): SpectrogramTransformer.transform on a batch whose
\* signals do not all yield the same spectrogram shape ends in a
\* shape-mismatch error, with flatten on or off: no output array comes back.
\* Stated for the configurations nothing else is wrong with: a valid
\* noverlap and clipping off.
C2_MixedShapesRaise ==
    (/\ IsSpectrogramCall
     /\ ValidNoverlap(self)
     /\ self.clip >= ClipOff
     /\ MixedShapes(self, X.lens)) =>
        /\ ret.kind = "error"
        /\ ret.err = "ValueError"

\* C3 (as claimed): a SpectrogramTransformer whose effective noverlap is not
\* in 0 <= noverlap < NFFT never returns an output array from transform;
\* this covers negative constructor arguments.  Stated with clipping off.
C3_InvalidNoverlapNeverReturnsArray ==
    (IsSpectrogramCall /\ ~ValidNoverlap(self) /\ self.clip >= ClipOff) =>
        ret.kind # "array"

\* A step that is a transform call: any step of an instance but a fit.
TransformStep ==
    /\ self.cls # "none"
    /\ ~(self.cls = "Whitener" /\ hist'.op = "fit")

\* C4 (as claimed): for every transformer, a transform call leaves the
\* caller's input array unchanged, element for element, and leaves the
\* transformer's attributes unchanged.
C4_TransformLeavesInputAndSelf ==
    [][TransformStep => (X' = Xpre' /\ self' = self)]_vars

\* C5 (as claimed): for N >= 1 signals of equal length T, a valid noverlap
\* and clipping off, transform returns an array of shape (N, F*W), (N, F, W)
\* or (N, W, F) with F = floor(pad_to/2) + 1 and
\* W = floor((T - noverlap) / (NFFT - noverlap)), every row written once.
C5_ShapeAsClaimed ==
    (/\ IsSpectrogramCall
     /\ Len(X.lens) >= 1
     /\ EqualLengths(X.lens)
     /\ ValidNoverlap(self)
     /\ self.clip >= ClipOff) =>
        /\ ret.kind = "array"
        /\ ret.shape =
              ExpectedShape(self, Len(X.lens), (PadTo(self) \div 2) + 1,
                  (X.lens[1] - self.noverlap) \div (self.NFFT - self.noverlap))
        /\ AllRowsWrittenOnce(ret)

\* C5 (amended): the same, with W = floor((T - noverlap) / (NFFT - noverlap))
\* for T >= NFFT and W = 1 for T < NFFT (a signal shorter than NFFT is zero
\* padded to NFFT and yields one window).
C5_ShapeWithShortSignalsPadded ==
    (/\ IsSpectrogramCall
     /\ Len(X.lens) >= 1
     /\ EqualLengths(X.lens)
     /\ ValidNoverlap(self)
     /\ self.clip >= ClipOff) =>
        /\ ret.kind = "array"
        /\ ret.shape =
              ExpectedShape(self, Len(X.lens), (PadTo(self) \div 2) + 1,
                  IF X.lens[1] >= self.NFFT
                  THEN (X.lens[1] - self.noverlap) \div (self.NFFT - self.noverlap)
                  ELSE 1)
        /\ AllRowsWrittenOnce(ret)

\* C5 witness: two signals of equal length at least NFFT, transposed and not
\* flattened, with more than one window and F # W, have been transformed.
C5_Witness ==
    /\ IsSpectrogramCall
    /\ Len(X.lens) = 2
    /\ EqualLengths(X.lens)
    /\ ValidNoverlap(self)
    /\ self.noverlap > 0
    /\ self.clip >= ClipOff
    /\ self.transpose /\ ~self.flatten
    /\ ret.kind = "array"
    /\ ret.shape[2] >= 2
    /\ ret.shape[2] # ret.shape[3]

\* The cell of signal i at frequency bin f and window w after the log step.
ExpectedCell(s, i, f, w) == [sig |-> i, f |-> f, w |-> w, db |-> s.log]

\* The frequency bins whose frequency Fs*f/pad_to is at most clip.
BinsUpToClip(s) ==
    {f \in 0..(PadTo(s) \div 2) : Fs * f <= s.clip * PadTo(s)}

\* C6: frequency clipping.  The output never has more frequency rows than
\* the unclipped count F; with clip >= 1000 all F rows are there, as with
\* no clipping; with clip < 1000 the rows kept are exactly the leading rows
\* whose frequency is <= clip; and the rows are cut before the transpose and
\* flatten steps rearrange them (cells carry the log step's mark).
C6_ClipKeepsLeadingRows ==
    (IsSpectrogramCall /\ ret.kind = "array") =>
        LET F == (PadTo(self) \div 2) + 1
            n == IF self.clip < ClipOff THEN Cardinality(BinsUpToClip(self)) ELSE F
            W == NumWindows(self, X.lens[1])
        IN /\ n <= F
           /\ self.clip >= ClipOff => n = F
           /\ \A f \in 0..(n - 1) : f \in BinsUpToClip(self) \/ self.clip >= ClipOff
           /\ ret.shape = ExpectedShape(self, Len(X.lens), n, W)
           /\ \A i \in 1..Len(X.lens) :
                 NumWindows(self, X.lens[i]) = W =>
                    LET v == ret.rows[i].v
                    IN IF self.flatten
                       THEN /\ Len(v) = n * W
                            /\ \A k \in 1..(n * W) :
                                  v[k] = IF self.transpose
                                         THEN ExpectedCell(self, i, (k - 1) % n,
                                                           (k - 1) \div n)
                                         ELSE ExpectedCell(self, i, (k - 1) \div W,
                                                           (k - 1) % W)
                       ELSE IF self.transpose
                            THEN /\ Len(v) = W
                                 /\ \A a \in 1..W : \A b \in 1..n :
                                       v[a][b] = ExpectedCell(self, i, b - 1, a - 1)
                            ELSE /\ Len(v) = n
                                 /\ \A a \in 1..n : \A b \in 1..W :
                                       v[a][b] = ExpectedCell(self, i, a - 1, b - 1)

\* C6 witness: a clip that falls on a frequency of the vector (500 Hz with
\* pad_to = 4) has cut a logged, transposed and flattened spectrogram of
\* several windows down to some, not all, of its rows.
C6_Witness ==
    /\ IsSpectrogramCall
    /\ ret.kind = "array"
    /\ Len(X.lens) >= 1
    /\ ValidNoverlap(self)
    /\ self.clip = 500 /\ PadTo(self) = 4
    /\ self.log /\ self.transpose /\ self.flatten
    /\ NumWindows(self, X.lens[1]) >= 2
    /\ ret.shape[2] = 2 * NumWindows(self, X.lens[1])

\* C7 (as claimed): FuncTransformer.transform fails with a shape error and
\* returns no array whenever the element count of the function's output
\* differs from the input's, and returns an array of exactly the input's
\* shape whenever the counts are equal.
C7_CountDecidesOutcome ==
    (self.cls = "Func" /\ ret # NoCall) =>
        IF FuncOutSize(self.func, X.shape) = Product(X.shape)
        THEN ret.kind = "array" /\ ret.shape = X.shape
        ELSE ret.kind = "error" /\ ret.err = "ValueError"

\* C8 (as claimed): StatsTransformer.transform on (N, A, B) returns an array
\* of shape (N, 6*n_bins), n_bins = B for axis 0 and A for axis 1, where the
\* n_bins values of statistic j fill columns [n_bins*j, n_bins*(j+1)) and
\* every cell is written exactly once; for any other axis the call fails
\* with a shape/dimension error.
C8_StatsLayoutAndAxisError ==
    (self.cls = "Stats" /\ ret # NoCall) =>
        IF self.axis \in {0, 1}
        THEN LET n_bins == IF self.axis = 0 THEN X.shape[3] ELSE X.shape[2]
             IN /\ ret.kind = "array"
                /\ ret.shape = <<X.shape[1], 6 * n_bins>>
                /\ \A i \in 1..X.shape[1] : \A c \in 1..(6 * n_bins) :
                      /\ ret.rows[i][c].n = 1
                      /\ ret.rows[i][c].v =
                            [sig |-> i, stat |-> Stats[((c - 1) \div n_bins) + 1],
                             bin |-> (c - 1) % n_bins]
        ELSE /\ ret.kind = "error"
             /\ ret.err \in {"ValueError", "IndexError"}

\* C9 (as claimed): with noise enabled FilterTransformer.transform draws one
\* noise vector per call, as long as a signal, with every component in
\* [-0.5e-4, 0.5e-4] (50 units of 1e-6), and adds it to every row once
\* before filtering; with noise off and the identity filter the output
\* equals the input.
C9_NoiseSmallAndAddedOnce ==
    (self.cls = "Filter" /\ ret # NoCall /\ Xpre.shape[1] >= 1) =>
        IF self.noise
        THEN /\ Len(hist.noise) = Xpre.shape[2]
             /\ \A k \in 1..Len(hist.noise) :
                   (0 - 50) <= hist.noise[k] /\ hist.noise[k] <= 50
             /\ \A i \in 1..Xpre.shape[1] :
                   ret.v[i] = ApplyFilter(self.filter,
                                 [k \in 1..Xpre.shape[2] |->
                                     Xpre.v[i][k] + hist.noise[k]])
        ELSE self.filter = "identity" => ret.v = Xpre.v

\* C10 (as claimed): SpectrogramTransformer.transform returns an output
\* array for every batch size: for N = 0 signals it returns an array with 0
\* rows, never None.  Stated for a valid noverlap.
C10_EmptyBatchReturnsArray ==
    (IsSpectrogramCall /\ ValidNoverlap(self) /\ Len(X.lens) = 0) =>
        /\ ret.kind = "array"
        /\ ret.shape[1] = 0

====
